---- MODULE Spec2Model ----
(***************************************************************************)
(* Model of the console assistant of main.py: the contact classes (Phone,  *)
(* Birthday, Record, AddressBook), the note classes (Note, NoteBook), the  *)
(* command handlers wrapped by input_error, and the command loop of main.  *)
(*                                                                         *)
(* Strings whose characters the code inspects (phones, dates) are modelled *)
(* as sequences of one-character strings; names, note texts and tags are   *)
(* only compared for equality and are modelled as TLA+ strings.            *)
(* A Python dict (insertion ordered) is a sequence of entries with         *)
(* distinct keys: assigning to an existing key replaces the value in       *)
(* place, assigning to a new key appends.                                  *)
(***************************************************************************)
EXTENDS Integers, Sequences, FiniteSets

VARIABLES book, notebook, pc, last, nhist

vars == <<book, notebook, pc, last, nhist>>

(***************************************************************************)
(* Bounds of the model.                                                    *)
(***************************************************************************)
\* most phones one Record holds in the model
MaxPhones == 2
\* most add_note / delete_note calls of one session
MaxHist == 5
\* most notes the NoteBook holds in the model
MaxNotes == 3
\* most tags the notes of the NoteBook hold together in the model
MaxTags == 3

(***************************************************************************)
(* Characters and strings.                                                 *)
(***************************************************************************)
DigitChars == <<"0", "1", "2", "3", "4", "5", "6", "7", "8", "9">>

IsDigit(c) == \E i \in 1..10 : DigitChars[i] = c

DigitVal(c) == (CHOOSE i \in 1..10 : DigitChars[i] = c) - 1

AllDigits(s) == \A i \in 1..Len(s) : IsDigit(s[i])

RECURSIVE NumVal(_)
NumVal(s) ==
    IF s = <<>> THEN 0
    ELSE 10 * NumVal(SubSeq(s, 1, Len(s) - 1)) + DigitVal(s[Len(s)])

\* absent value (Python None) of an optional field or lookup
None == <<>>

(***************************************************************************)
(* Phone.is_valid_phone: re.fullmatch(r"\d{10}", phone).                    *)
(***************************************************************************)
is_valid_phone(phone) == Len(phone) = 10 /\ AllDigits(phone)

(***************************************************************************)
(* Calendar arithmetic of datetime.date, as used by Birthday and by        *)
(* get_upcoming_birthdays.  A date is <<year, month, day>>.                *)
(***************************************************************************)
IsLeap(y) == y % 4 = 0 /\ (y % 100 # 0 \/ y % 400 = 0)

DaysInMonth(y, m) ==
    IF m = 2 THEN (IF IsLeap(y) THEN 29 ELSE 28)
    ELSE IF m \in {4, 6, 9, 11} THEN 30 ELSE 31

ValidDate(y, m, d) ==
    /\ y \in 1..9999
    /\ m \in 1..12
    /\ d \in 1..DaysInMonth(y, m)

RECURSIVE DaysBeforeMonth(_, _)
DaysBeforeMonth(y, m) ==
    IF m = 1 THEN 0 ELSE DaysBeforeMonth(y, m - 1) + DaysInMonth(y, m - 1)

DaysBeforeYear(y) ==
    LET p == y - 1 IN p * 365 + (p \div 4) - (p \div 100) + (p \div 400)

\* date.toordinal(): the day number of a valid date
ToOrdinal(dt) == DaysBeforeYear(dt[1]) + DaysBeforeMonth(dt[1], dt[2]) + dt[3]

\* date < date
DateLess(a, b) ==
    \/ a[1] < b[1]
    \/ a[1] = b[1] /\ a[2] < b[2]
    \/ a[1] = b[1] /\ a[2] = b[2] /\ a[3] < b[3]

\* date.replace(year=y): raises ValueError when the day does not exist in y
replace_year(dt, y) ==
    IF ValidDate(y, dt[2], dt[3])
    THEN [raised |-> FALSE, value |-> <<y, dt[2], dt[3]>>]
    ELSE [raised |-> TRUE, value |-> None]

(***************************************************************************)
(* Birthday.__init__: datetime.strptime(value, "%d.%m.%Y").date().          *)
(* The day and month fields take one or two digits, the year exactly four; *)
(* the fields are separated by single dots and the whole string must       *)
(* match; the resulting date must exist.                                   *)
(***************************************************************************)
DotPositions(s) == {i \in 1..Len(s) : s[i] = "."}

ParseBirthday(value) ==
    LET dots == DotPositions(value) IN
    IF Cardinality(dots) # 2 THEN [raised |-> TRUE, value |-> None]
    ELSE
      LET i1 == CHOOSE i \in dots : \A j \in dots : i <= j
          i2 == CHOOSE i \in dots : \A j \in dots : j <= i
          ds == SubSeq(value, 1, i1 - 1)
          ms == SubSeq(value, i1 + 1, i2 - 1)
          ys == SubSeq(value, i2 + 1, Len(value))
      IN IF /\ Len(ds) \in {1, 2} /\ AllDigits(ds)
            /\ Len(ms) \in {1, 2} /\ AllDigits(ms)
            /\ Len(ys) = 4 /\ AllDigits(ys)
            /\ ValidDate(NumVal(ys), NumVal(ms), NumVal(ds))
         THEN [raised |-> FALSE,
               value |-> <<NumVal(ys), NumVal(ms), NumVal(ds)>>]
         ELSE [raised |-> TRUE, value |-> None]

Pad2(n) == <<DigitChars[((n \div 10) % 10) + 1], DigitChars[(n % 10) + 1]>>

\* date.strftime("%d.%m.%Y")
FormatDate(dt) ==
    Pad2(dt[3]) \o <<".">> \o Pad2(dt[2]) \o <<".">>
        \o Pad2(dt[1] \div 100) \o Pad2(dt[1] % 100)

(***************************************************************************)
(* Outcome of a call: the state it leaves behind (Python mutates in place, *)
(* so a call that raises still leaves its mutations), the value returned   *)
(* and the exception raised, if any.                                       *)
(***************************************************************************)
NoExc == [type |-> "none", text |-> "", arg |-> <<>>]

Exc(type, text, arg) == [type |-> type, text |-> text, arg |-> arg]

Ok(state, ret) == [state |-> state, ret |-> ret, exc |-> NoExc]

Raise(state, type, text, arg) ==
    [state |-> state, ret |-> None, exc |-> Exc(type, text, arg)]

\* a string returned for display: a fixed text and the values formatted into it
Str(text, arg) == [kind |-> "str", text |-> text, arg |-> arg]

\* a PrettyTable returned for display
Table(rows) == [kind |-> "table", text |-> "", arg |-> rows]

MsgInvalidPhone == "Invalid phone number format. It should be 10 digits."

MsgInvalidDate == "Invalid date format. Use DD.MM.YYYY"

MsgPhoneNotFound == "Phone {} not found."

MsgContactNotFound == "Contact {} not found."

(***************************************************************************)
(* Record: [name, phones, birthday], phones a sequence of phone values,    *)
(* birthday None or a date.                                                *)
(***************************************************************************)
NewRecord(name) == [name |-> name, phones |-> <<>>, birthday |-> None]

\* index of the first element of seq equal to v, 0 when there is none
FirstIndex(seq, v) ==
    IF \E i \in 1..Len(seq) : seq[i] = v
    THEN CHOOSE i \in 1..Len(seq) :
            seq[i] = v /\ \A j \in 1..(i - 1) : seq[j] # v
    ELSE 0

RemoveAt(seq, i) == SubSeq(seq, 1, i - 1) \o SubSeq(seq, i + 1, Len(seq))

add_phone(rec, phone) ==
    IF ~is_valid_phone(phone)
    THEN Raise(rec, "ValueError", MsgInvalidPhone, <<>>)
    ELSE Ok([rec EXCEPT !.phones = Append(@, phone)], None)

remove_phone(rec, phone) ==
    LET i == FirstIndex(rec.phones, phone) IN
    IF i = 0
    THEN Raise(rec, "ValueError", MsgPhoneNotFound, <<phone>>)
    ELSE Ok([rec EXCEPT !.phones = RemoveAt(@, i)], None)

\* edit_phone with the format of new_phone checked before the search
edit_phone_format_first(rec, old_phone, new_phone) ==
    LET i == FirstIndex(rec.phones, old_phone) IN
    IF ~is_valid_phone(new_phone)
    THEN Raise(rec, "ValueError", MsgInvalidPhone, <<>>)
    ELSE IF i = 0
    THEN Raise(rec, "ValueError", MsgPhoneNotFound, <<old_phone>>)
    ELSE Ok([rec EXCEPT !.phones[i] = new_phone], None)

\* edit_phone with the format of new_phone checked before the assignment
edit_phone_checked(rec, old_phone, new_phone) ==
    LET i == FirstIndex(rec.phones, old_phone) IN
    IF i = 0
    THEN Raise(rec, "ValueError", MsgPhoneNotFound, <<old_phone>>)
    ELSE IF ~is_valid_phone(new_phone)
    THEN Raise(rec, "ValueError", MsgInvalidPhone, <<>>)
    ELSE Ok([rec EXCEPT !.phones[i] = new_phone], None)

edit_phone(rec, old_phone, new_phone) ==
    LET i == FirstIndex(rec.phones, old_phone) IN
    IF i = 0
    THEN Raise(rec, "ValueError", MsgPhoneNotFound, <<old_phone>>)
    ELSE LET changed == [rec EXCEPT !.phones[i] = new_phone] IN
         IF ~is_valid_phone(new_phone)
         THEN Raise(changed, "ValueError", MsgInvalidPhone, <<>>)
         ELSE Ok(changed, None)

add_birthday_rec(rec, birthday) ==
    LET p == ParseBirthday(birthday) IN
    IF p.raised
    THEN Raise(rec, "ValueError", MsgInvalidDate, <<>>)
    ELSE Ok([rec EXCEPT !.birthday = p.value], None)

\* "; ".join(p.value for p in self.phones)
RECURSIVE JoinPhones(_)
JoinPhones(phones) ==
    IF phones = <<>> THEN <<>>
    ELSE IF Len(phones) = 1 THEN phones[1]
    ELSE phones[1] \o <<";", " ">> \o JoinPhones(Tail(phones))

to_dict(rec) ==
    <<rec.name, JoinPhones(rec.phones),
      IF rec.birthday # None THEN FormatDate(rec.birthday)
      ELSE <<"N", "/", "A">> >>

(***************************************************************************)
(* AddressBook: a dict from name to Record.                                *)
(***************************************************************************)
\* position of the record stored under name, 0 when there is none
find(bk, name) ==
    IF \E i \in 1..Len(bk) : bk[i].name = name
    THEN CHOOSE i \in 1..Len(bk) : bk[i].name = name
    ELSE 0

add_record(bk, rec) ==
    LET i == find(bk, rec.name) IN
    IF i = 0 THEN Append(bk, rec) ELSE [bk EXCEPT ![i] = rec]

delete(bk, name) ==
    LET i == find(bk, name) IN
    IF i # 0 THEN Ok(RemoveAt(bk, i), None)
    ELSE Raise(bk, "KeyError", MsgContactNotFound, <<name>>)

\* the loop of get_upcoming_birthdays over the records from position i on
RECURSIVE UpcomingFrom(_, _, _, _)
UpcomingFrom(bk, i, now, days) ==
    IF i > Len(bk) THEN [raised |-> FALSE, value |-> <<>>]
    ELSE IF bk[i].birthday = None THEN UpcomingFrom(bk, i + 1, now, days)
    ELSE
      LET birthday == bk[i].birthday
          this == replace_year(birthday, now[1])
      IN IF this.raised THEN [raised |-> TRUE, value |-> None]
         ELSE
           LET next == IF DateLess(this.value, now)
                       THEN replace_year(birthday, now[1] + 1)
                       ELSE this
           IN IF next.raised THEN [raised |-> TRUE, value |-> None]
              ELSE
                LET delta == ToOrdinal(next.value) - ToOrdinal(now)
                    rest == UpcomingFrom(bk, i + 1, now, days)
                IN IF rest.raised THEN rest
                   ELSE IF delta < days
                   THEN [raised |-> FALSE,
                         value |-> <<<<bk[i].name, FormatDate(next.value)>>>>
                                      \o rest.value]
                   ELSE rest

get_upcoming_birthdays(bk, now, days) ==
    LET r == UpcomingFrom(bk, 1, now, days) IN
    IF r.raised
    THEN Raise(bk, "ValueError", "day is out of range for month", <<>>)
    ELSE Ok(bk, r.value)

RECURSIVE to_table(_)
to_table(bk) ==
    IF bk = <<>> THEN <<>> ELSE <<to_dict(bk[1])>> \o to_table(Tail(bk))

(***************************************************************************)
(* input_error: ValueError and KeyError become str(e), IndexError and      *)
(* TypeError fixed texts; any other exception propagates.  str() of a      *)
(* KeyError is the repr of its argument, i.e. the message in quotes.       *)
(***************************************************************************)
input_error(r) ==
    IF r.exc.type = "ValueError"
      THEN Ok(r.state, Str(r.exc.text, r.exc.arg))
    ELSE IF r.exc.type = "KeyError"
      THEN Ok(r.state, Str("'" \o r.exc.text \o "'", r.exc.arg))
    ELSE IF r.exc.type = "IndexError"
      THEN Ok(r.state, Str("Invalid command format.", <<>>))
    ELSE IF r.exc.type = "TypeError"
      THEN Ok(r.state, Str("Invalid input type.", <<>>))
    ELSE r

(***************************************************************************)
(* Command handlers of the address book.  args is the list of words after  *)
(* the command; each handler is defined as its body and as the function    *)
(* the input_error decorator makes of it.                                  *)
(***************************************************************************)
add_contact_body(args, bk) ==
    IF Len(args) < 2
    THEN Raise(bk, "ValueError", "Give me name and phone please.", <<>>)
    ELSE
      LET name == args[1]
          phone == args[2]
      IN IF ~is_valid_phone(phone)
         THEN Raise(bk, "ValueError", MsgInvalidPhone, <<>>)
         ELSE
           LET i == find(bk, name) IN
           IF i # 0
           THEN LET r == add_phone(bk[i], phone) IN
                [state |-> [bk EXCEPT ![i] = r.state],
                 ret |-> IF r.exc = NoExc
                         THEN Str("Contact added.", <<>>) ELSE None,
                 exc |-> r.exc]
           ELSE LET r == add_phone(NewRecord(name), phone) IN
                IF r.exc # NoExc THEN [r EXCEPT !.state = bk]
                ELSE Ok(add_record(bk, r.state), Str("Contact added.", <<>>))

add_contact(args, bk) == input_error(add_contact_body(args, bk))

change_contact_body(args, bk) ==
    IF Len(args) < 3
    THEN Raise(bk, "ValueError",
               "Give me name, old phone and new phone please.", <<>>)
    ELSE
      LET name == args[1]
          i == find(bk, name)
      IN IF i = 0
         THEN Raise(bk, "KeyError", MsgContactNotFound, <<name>>)
         ELSE LET r == edit_phone(bk[i], args[2], args[3]) IN
              [state |-> [bk EXCEPT ![i] = r.state],
               ret |-> IF r.exc = NoExc
                       THEN Str("Contact updated.", <<>>) ELSE None,
               exc |-> r.exc]

change_contact(args, bk) == input_error(change_contact_body(args, bk))

get_contact_body(args, bk) ==
    IF Len(args) < 1
    THEN Raise(bk, "ValueError", "Give me name please.", <<>>)
    ELSE
      LET name == args[1]
          i == find(bk, name)
      IN IF i = 0
         THEN Raise(bk, "KeyError", MsgContactNotFound, <<name>>)
         ELSE Ok(bk, Table(<<to_dict(bk[i])>>))

get_contact(args, bk) == input_error(get_contact_body(args, bk))

delete_contact_body(args, bk) ==
    IF Len(args) < 1
    THEN Raise(bk, "ValueError", "Give me name please.", <<>>)
    ELSE
      LET name == args[1]
          r == delete(bk, name)
      IN IF r.exc # NoExc THEN r
         ELSE Ok(r.state, Str("Contact {} deleted.", <<name>>))

delete_contact(args, bk) == input_error(delete_contact_body(args, bk))

add_birthday_body(args, bk) ==
    IF Len(args) < 2
    THEN Raise(bk, "ValueError", "Give me name and birthday please.", <<>>)
    ELSE
      LET name == args[1]
          i == find(bk, name)
      IN IF i = 0
         THEN Raise(bk, "KeyError", MsgContactNotFound, <<name>>)
         ELSE LET r == add_birthday_rec(bk[i], args[2]) IN
              [state |-> [bk EXCEPT ![i] = r.state],
               ret |-> IF r.exc = NoExc
                       THEN Str("Birthday added.", <<>>) ELSE None,
               exc |-> r.exc]

add_birthday(args, bk) == input_error(add_birthday_body(args, bk))

all_contacts(bk) ==
    IF bk = <<>> THEN Ok(bk, Str("No contacts saved yet.", <<>>))
    ELSE Ok(bk, Table(to_table(bk)))

show_birthday_body(args, bk) ==
    IF Len(args) < 1
    THEN Raise(bk, "ValueError", "Give me name please.", <<>>)
    ELSE
      LET name == args[1]
          i == find(bk, name)
      IN IF i = 0
         THEN Raise(bk, "KeyError", MsgContactNotFound, <<name>>)
         ELSE IF bk[i].birthday # None
         THEN Ok(bk, Str("{}'s birthday is on {}",
                         <<name, FormatDate(bk[i].birthday)>>))
         ELSE Ok(bk, Str("No birthday set for {}.", <<name>>))

show_birthday(args, bk) == input_error(show_birthday_body(args, bk))

\* int(s) of a word: an optional sign and at least one digit
ParseInt(s) ==
    LET signed == s # <<>> /\ s[1] \in {"+", "-"}
        digits == IF signed THEN Tail(s) ELSE s
    IN IF digits = <<>> \/ ~AllDigits(digits)
       THEN [raised |-> TRUE, value |-> 0]
       ELSE [raised |-> FALSE,
             value |-> IF signed /\ s[1] = "-"
                       THEN 0 - NumVal(digits) ELSE NumVal(digits)]

\* days=7, the default window of get_upcoming_birthdays
DefaultDays == 7

\* the birthdays branch of main
birthdays_branch(args, bk, now) ==
    LET n == IF args # <<>> THEN ParseInt(args[1])
             ELSE [raised |-> FALSE, value |-> DefaultDays]
        r == get_upcoming_birthdays(bk, now, n.value)
    IN IF args # <<>> /\ (n.raised \/ r.exc.type = "ValueError")
       THEN Ok(bk, Str("Invalid number of days. Please enter an integer.",
                       <<>>))
       ELSE IF r.exc # NoExc THEN r
       ELSE IF r.ret # <<>>
       THEN Ok(bk, [kind |-> "table",
                    text |-> "Upcoming birthdays in the next {} days:",
                    arg |-> <<n.value, r.ret>>])
       ELSE Ok(bk, [kind |-> "str",
                    text |-> "No upcoming birthdays in the next {} days.",
                    arg |-> <<n.value, r.ret>>])

(***************************************************************************)
(* Inputs of the model.                                                    *)
(***************************************************************************)
Names == {"Ann", "Bob"}

P1 == <<"0", "1", "2", "3", "4", "5", "6", "7", "8", "9">>

P2 == <<"5", "5", "5", "5", "5", "5", "5", "5", "5", "5">>

\* nine digits
Bad9 == <<"1", "2", "3", "4", "5", "6", "7", "8", "9">>

\* ten characters, one of them not a digit
BadA == <<"0", "1", "2", "3", "4", "a", "6", "7", "8", "9">>

PhoneInputs == {P1, P2, BadA}

B15061990 == <<"1", "5", ".", "0", "6", ".", "1", "9", "9", "0">>

B29022024 == <<"2", "9", ".", "0", "2", ".", "2", "0", "2", "4">>

B29022023 == <<"2", "9", ".", "0", "2", ".", "2", "0", "2", "3">>

BIso == <<"1", "9", "9", "0", "-", "0", "6", "-", "1", "5">>

BirthdayInputs == {B15061990, B29022024, B29022023, BIso}

DayInputs == {<<"7">>, <<"5">>, <<"3", "6", "6">>, <<"x">>}

\* the dates the clock shows when a command reads it
Todays == {<<2024, 6, 10>>, <<2024, 6, 16>>, <<2024, 2, 25>>, <<2025, 2, 28>>}

(***************************************************************************)
(* The command loop of main: one action per command.  pc is "prompt" while *)
(* the loop waits for input, "done" after exit or close, "crashed" when an *)
(* exception left the loop.  last is the command just executed: its words, *)
(* the date the clock showed if the command read it, what was printed and  *)
(* the exception that escaped, if any.                                     *)
(***************************************************************************)
Init ==
    /\ book = <<>>
    /\ notebook = <<>>
    /\ pc = "prompt"
    /\ last = [cmd |-> "", args |-> <<>>, now |-> None,
               ret |-> None, exc |-> NoExc]
    /\ nhist = <<>>

\* the loop prints what the handler returned, or dies with its exception
BookStep(cmd, args, now, r) ==
    /\ book' = r.state
    /\ last' = [cmd |-> cmd, args |-> args, now |-> now,
                ret |-> r.ret, exc |-> r.exc]
    /\ pc' = IF r.exc = NoExc THEN "prompt" ELSE "crashed"
    /\ UNCHANGED <<notebook, nhist>>

\* the model keeps every Record within MaxPhones phones
WithinPhones(bk) == \A i \in 1..Len(bk) : Len(bk[i].phones) <= MaxPhones

AddArgs ==
    {<<>>} \cup {<<n>> : n \in Names}
           \cup {<<n, p>> : n \in Names, p \in PhoneInputs \cup {Bad9}}

CmdAdd ==
    /\ pc = "prompt"
    /\ \E args \in AddArgs :
          /\ WithinPhones(add_contact(args, book).state)
          /\ BookStep("add", args, None, add_contact(args, book))

ChangeArgs ==
    {<<>>} \cup {<<n, p>> : n \in Names, p \in PhoneInputs}
           \cup {<<n, p, q>> : n \in Names, p \in PhoneInputs, q \in PhoneInputs}

CmdChange ==
    /\ pc = "prompt"
    /\ \E args \in ChangeArgs :
          BookStep("change", args, None, change_contact(args, book))

NameArgs == {<<>>} \cup {<<n>> : n \in Names}

CmdPhone ==
    /\ pc = "prompt"
    /\ \E args \in NameArgs :
          BookStep("phone", args, None, get_contact(args, book))

CmdAll ==
    /\ pc = "prompt"
    /\ BookStep("all", <<>>, None, all_contacts(book))

CmdDelete ==
    /\ pc = "prompt"
    /\ \E args \in NameArgs :
          BookStep("delete", args, None, delete_contact(args, book))

BirthdayArgs ==
    {<<>>} \cup {<<n>> : n \in Names}
           \cup {<<n, b>> : n \in Names, b \in BirthdayInputs}

CmdAddBirthday ==
    /\ pc = "prompt"
    /\ \E args \in BirthdayArgs :
          BookStep("add-birthday", args, None, add_birthday(args, book))

CmdBirthdays ==
    /\ pc = "prompt"
    /\ \E args \in {<<>>} \cup {<<d>> : d \in DayInputs}, now \in Todays :
          BookStep("birthdays", args, now, birthdays_branch(args, book, now))

CmdShowBirthday ==
    /\ pc = "prompt"
    /\ \E args \in NameArgs :
          BookStep("show-birthday", args, None, show_birthday(args, book))

\* Record.remove_phone called on a record of the book (no command does);
\* its exception goes to the caller
CallRemovePhone ==
    /\ pc = "prompt"
    /\ \E i \in 1..Len(book), p \in PhoneInputs :
          LET r == remove_phone(book[i], p) IN
          /\ book' = [book EXCEPT ![i] = r.state]
          /\ last' = [cmd |-> "remove_phone", args |-> <<book[i].name, p>>,
                      now |-> None, ret |-> None, exc |-> r.exc]
    /\ UNCHANGED <<notebook, pc, nhist>>

\* hello, an unknown command or an empty line: a fixed text is printed
CmdOther ==
    /\ pc = "prompt"
    /\ \E c \in {"hello", "unknown", ""} :
          last' = [cmd |-> c, args |-> <<>>, now |-> None,
                   ret |-> Str(IF c = "hello" THEN "How can I help you?"
                               ELSE IF c = "" THEN "Please enter a command."
                               ELSE "Command not found! Please try again",
                               <<>>),
                   exc |-> NoExc]
    /\ UNCHANGED <<book, notebook, pc, nhist>>

\* exit or close: both collections are saved and the loop ends
CmdExit ==
    /\ pc = "prompt"
    /\ pc' = "done"
    /\ last' = [cmd |-> "exit", args |-> <<>>, now |-> None,
                ret |-> Str("Goodbye!", <<>>), exc |-> NoExc]
    /\ UNCHANGED <<book, notebook, nhist>>

\* a session that edits the phones of contacts
NextBook ==
    \/ CmdAdd
    \/ CmdChange
    \/ CmdPhone
    \/ CmdAll
    \/ CmdDelete
    \/ CallRemovePhone
    \/ CmdOther
    \/ CmdExit

SpecBook == Init /\ [][NextBook]_vars

\* a session that records and queries birthdays
NextBirthdays ==
    \/ CmdAdd
    \/ CmdDelete
    \/ CmdAddBirthday
    \/ CmdBirthdays
    \/ CmdShowBirthday
    \/ CmdExit

SpecBirthdays == Init /\ [][NextBirthdays]_vars

(***************************************************************************)
(* Note: [text, tags, creation_date]; NoteBook: a dict from identifier to  *)
(* Note, modelled as a sequence of [id, note] entries in insertion order.  *)
(* nhist is the sequence of add_note and successful delete_note calls made *)
(* on the NoteBook, each with the identifier it wrote or removed.          *)
(* datetime.now() in Note.__init__ is a clock that advances with every     *)
(* Note constructed.                                                       *)
(***************************************************************************)
NewNote(text, now) == [text |-> text, tags |-> <<>>, creation_date |-> now]

\* the clock value the next Note gets
NoteClock(hist) == Cardinality({i \in 1..Len(hist) : hist[i].op = "add"}) + 1

Note_add_tag(note, tag) == Ok([note EXCEPT !.tags = Append(@, tag)], None)

remove_tag(note, tag) ==
    LET i == FirstIndex(note.tags, tag) IN
    IF i = 0 THEN Raise(note, "ValueError", "Tag {} not found.", <<tag>>)
    ELSE Ok([note EXCEPT !.tags = RemoveAt(@, i)], None)

\* "; ".join(t.value for t in self.tags)
RECURSIVE JoinTags(_)
JoinTags(tags) ==
    IF tags = <<>> THEN ""
    ELSE IF Len(tags) = 1 THEN tags[1]
    ELSE tags[1] \o "; " \o JoinTags(Tail(tags))

Note_to_dict(note) == <<note.text, JoinTags(note.tags), note.creation_date>>

\* position of the entry stored under note_id, 0 when there is none
KeyIndex(nb, note_id) ==
    IF \E i \in 1..Len(nb) : nb[i].id = note_id
    THEN CHOOSE i \in 1..Len(nb) : nb[i].id = note_id
    ELSE 0

\* self.data[len(self.data) + 1] = note
NoteBook_add_note(nb, note) ==
    LET key == Len(nb) + 1
        i == KeyIndex(nb, key)
    IN IF i = 0 THEN Append(nb, [id |-> key, note |-> note])
       ELSE [nb EXCEPT ![i].note = note]

NoteBook_delete_note(nb, note_id) ==
    LET i == KeyIndex(nb, note_id) IN
    IF i # 0 THEN Ok(RemoveAt(nb, i), None)
    ELSE Raise(nb, "KeyError", "Note {} not found.", <<note_id>>)

\* the inner loop of find_by_tag: does a tag of the note equal tag
RECURSIVE HasTagFrom(_, _, _)
HasTagFrom(tags, j, tag) ==
    IF j > Len(tags) THEN FALSE
    ELSE IF tags[j] = tag THEN TRUE
    ELSE HasTagFrom(tags, j + 1, tag)

\* find_by_tag without the break: one append for every matching tag
RECURSIVE FindFromNoBreak(_, _, _)
FindFromNoBreak(nb, i, tag) ==
    IF i > Len(nb) THEN <<>>
    ELSE [j \in 1..Cardinality({k \in 1..Len(nb[i].note.tags) :
                                   nb[i].note.tags[k] = tag}) |-> nb[i].note]
            \o FindFromNoBreak(nb, i + 1, tag)

\* the outer loop of find_by_tag over the entries from position i on
RECURSIVE FindFrom(_, _, _)
FindFrom(nb, i, tag) ==
    IF i > Len(nb) THEN <<>>
    ELSE IF HasTagFrom(nb[i].note.tags, 1, tag)
    THEN <<nb[i].note>> \o FindFrom(nb, i + 1, tag)
    ELSE FindFrom(nb, i + 1, tag)

NoteBook_find_by_tag(nb, tag) == FindFrom(nb, 1, tag)

RECURSIVE NoteBook_to_table(_)
NoteBook_to_table(nb) ==
    IF nb = <<>> THEN <<>>
    ELSE <<<<nb[1].id>> \o Note_to_dict(nb[1].note)>>
            \o NoteBook_to_table(Tail(nb))

(***************************************************************************)
(* Command handlers of the note book.                                      *)
(***************************************************************************)
\* " ".join(args)
RECURSIVE JoinWords(_)
JoinWords(args) ==
    IF args = <<>> THEN ""
    ELSE IF Len(args) = 1 THEN args[1]
    ELSE args[1] \o " " \o JoinWords(Tail(args))

add_note_body(args, nb, now) ==
    IF Len(args) < 1
    THEN Raise(nb, "ValueError", "Give me note text please.", <<>>)
    ELSE Ok(NoteBook_add_note(nb, NewNote(JoinWords(args), now)),
            Str("Note added.", <<>>))

add_note(args, nb, now) == input_error(add_note_body(args, nb, now))

\* int(args[0]) failing raises ValueError with the message of int()
delete_note_body(args, nb) ==
    IF Len(args) < 1
    THEN Raise(nb, "ValueError", "Give me note ID please.", <<>>)
    ELSE
      LET n == ParseInt(args[1]) IN
      IF n.raised
      THEN Raise(nb, "ValueError",
                 "invalid literal for int() with base 10: {}", <<args[1]>>)
      ELSE LET r == NoteBook_delete_note(nb, n.value) IN
           IF r.exc # NoExc THEN r
           ELSE Ok(r.state, Str("Note {} deleted.", <<n.value>>))

delete_note(args, nb) == input_error(delete_note_body(args, nb))

add_tag_body(args, nb) ==
    IF Len(args) < 2
    THEN Raise(nb, "ValueError", "Give me note ID and tag please.", <<>>)
    ELSE
      LET n == ParseInt(args[1]) IN
      IF n.raised
      THEN Raise(nb, "ValueError",
                 "invalid literal for int() with base 10: {}", <<args[1]>>)
      ELSE LET i == KeyIndex(nb, n.value) IN
           IF i = 0
           THEN Raise(nb, "KeyError", "Note {} not found.", <<n.value>>)
           ELSE Ok([nb EXCEPT ![i].note = Note_add_tag(@, args[2]).state],
                   Str("Tag added.", <<>>))

add_tag(args, nb) == input_error(add_tag_body(args, nb))

delete_tag_body(args, nb) ==
    IF Len(args) < 2
    THEN Raise(nb, "ValueError", "Give me note ID and tag please.", <<>>)
    ELSE
      LET n == ParseInt(args[1]) IN
      IF n.raised
      THEN Raise(nb, "ValueError",
                 "invalid literal for int() with base 10: {}", <<args[1]>>)
      ELSE LET i == KeyIndex(nb, n.value) IN
           IF i = 0
           THEN Raise(nb, "KeyError", "Note {} not found.", <<n.value>>)
           ELSE LET r == remove_tag(nb[i].note, args[2]) IN
                IF r.exc # NoExc THEN [r EXCEPT !.state = nb]
                ELSE Ok([nb EXCEPT ![i].note = r.state],
                        Str("Tag deleted.", <<>>))

delete_tag(args, nb) == input_error(delete_tag_body(args, nb))

RECURSIVE FoundRows(_)
FoundRows(notes) ==
    IF notes = <<>> THEN <<>>
    ELSE <<<<Note_to_dict(notes[1])[1], Note_to_dict(notes[1])[2]>>>>
            \o FoundRows(Tail(notes))

find_by_tag_body(args, nb) ==
    IF Len(args) < 1
    THEN Raise(nb, "ValueError", "Give me tag please.", <<>>)
    ELSE
      LET tag == args[1]
          found_notes == NoteBook_find_by_tag(nb, tag)
      IN IF found_notes = <<>>
         THEN Ok(nb, Str("No notes found with tag {}.", <<tag>>))
         ELSE Ok(nb, Table(FoundRows(found_notes)))

find_by_tag(args, nb) == input_error(find_by_tag_body(args, nb))

show_notes(nb) ==
    IF nb = <<>> THEN Ok(nb, Str("No notes saved yet.", <<>>))
    ELSE Ok(nb, Table(NoteBook_to_table(nb)))

(***************************************************************************)
(* The note commands of the loop.                                          *)
(***************************************************************************)
TextInputs == {<<>>, <<"milk">>, <<"call", "Ann">>}

NoteIdInputs == {<<"1">>, <<"2">>, <<"3">>, <<"4">>, <<"x">>}

\* the note identifiers typed into add-tag and delete-tag
TagIdInputs == {<<"1">>, <<"2">>, <<"x">>}

TagInputs == {"work", "Work"}

NoteStep(cmd, args, r) ==
    /\ notebook' = r.state
    /\ last' = [cmd |-> cmd, args |-> args, now |-> None,
                ret |-> r.ret, exc |-> r.exc]
    /\ pc' = IF r.exc = NoExc THEN "prompt" ELSE "crashed"
    /\ UNCHANGED book

TotalTags(nb) ==
    LET RECURSIVE Sum(_)
        Sum(i) == IF i = 0 THEN 0 ELSE Sum(i - 1) + Len(nb[i].note.tags)
    IN Sum(Len(nb))

CmdAddNote ==
    /\ pc = "prompt"
    /\ \E args \in TextInputs :
          /\ NoteStep("add-note", args, add_note(args, notebook, NoteClock(nhist)))
          /\ IF args = <<>> THEN UNCHANGED nhist
             ELSE /\ Len(nhist) < MaxHist
                  /\ Len(notebook) < MaxNotes
                  /\ nhist' = Append(nhist, [op |-> "add",
                                             id |-> Len(notebook) + 1])

CmdDeleteNote ==
    /\ pc = "prompt"
    /\ \E args \in {<<>>} \cup {<<n>> : n \in NoteIdInputs} :
          /\ NoteStep("delete-note", args, delete_note(args, notebook))
          /\ IF notebook' = notebook THEN UNCHANGED nhist
             ELSE /\ Len(nhist) < MaxHist
                  /\ nhist' = Append(nhist, [op |-> "delete",
                                             id |-> ParseInt(args[1]).value])

TagArgs ==
    {<<>>} \cup {<<n>> : n \in TagIdInputs}
           \cup {<<n, t>> : n \in TagIdInputs, t \in TagInputs}

CmdAddTag ==
    /\ pc = "prompt"
    /\ \E args \in TagArgs :
          /\ TotalTags(add_tag(args, notebook).state) <= MaxTags
          /\ NoteStep("add-tag", args, add_tag(args, notebook))
    /\ UNCHANGED nhist

CmdDeleteTag ==
    /\ pc = "prompt"
    /\ \E args \in TagArgs :
          NoteStep("delete-tag", args, delete_tag(args, notebook))
    /\ UNCHANGED nhist

CmdFindTag ==
    /\ pc = "prompt"
    /\ \E args \in {<<>>} \cup {<<t>> : t \in TagInputs} :
          NoteStep("find-tag", args, find_by_tag(args, notebook))
    /\ UNCHANGED nhist

CmdShowNotes ==
    /\ pc = "prompt"
    /\ NoteStep("show-notes", <<>>, show_notes(notebook))
    /\ UNCHANGED nhist

\* a session that adds and deletes notes
NextNotes ==
    \/ CmdAddNote
    \/ CmdDeleteNote
    \/ CmdShowNotes
    \/ CmdOther
    \/ CmdExit

SpecNotes == Init /\ [][NextNotes]_vars

\* a session that tags notes and searches them by tag
NextTags ==
    \/ CmdAddNote
    \/ CmdAddTag
    \/ CmdDeleteTag
    \/ CmdFindTag
    \/ CmdExit

SpecTags == Init /\ [][NextTags]_vars

(***************************************************************************)
(* Properties.                                                             *)
(***************************************************************************)
\* a string of exactly 10 decimal digits
TenDigits(s) ==
    /\ Len(s) = 10
    /\ \A k \in 1..10 :
          s[k] \in {"0", "1", "2", "3", "4", "5", "6", "7", "8", "9"}

\* C1: after any sequence of add, change, remove_phone, delete and
\* add-birthday operations, successful or failed, every phone stored in
\* every Record is a string of exactly 10 decimal digits.
C1_EveryPhoneTenDigits ==
    \A i \in 1..Len(book) :
       \A k \in 1..Len(book[i].phones) : TenDigits(book[i].phones[k])

\* the identifiers present in a NoteBook
Ids(nb) == {nb[i].id : i \in 1..Len(nb)}

\* the note stored under an identifier that is present
NoteAt(nb, id) == nb[CHOOSE i \in 1..Len(nb) : nb[i].id = id].note

\* the first four NoteBook calls were add_note three times, delete_note(2)
C2_Prefix ==
    /\ Len(nhist) >= 4
    /\ \A i \in 1..3 : nhist[i].op = "add"
    /\ nhist[4] = [op |-> "delete", id |-> 2]

\* C2: from an empty NoteBook, three add_note calls and delete_note(2)
\* leave exactly the identifiers {1,3}; a fourth add_note then stores the
\* new note under 4, the notes under 1 and 3 still present and unchanged
\* (they are the first and the third note constructed).
C2_FourthNoteGetsIdFour ==
    /\ (C2_Prefix /\ Len(nhist) = 4) => Ids(notebook) = {1, 3}
    /\ (C2_Prefix /\ Len(nhist) = 5 /\ nhist[5].op = "add") =>
          /\ nhist[5].id = 4
          /\ Ids(notebook) = {1, 3, 4}
          /\ NoteAt(notebook, 1).creation_date = 1
          /\ NoteAt(notebook, 3).creation_date = 3
          /\ NoteAt(notebook, 4).creation_date = 4

\* C3: each add_note assigns an identifier strictly greater than every
\* identifier assigned by an earlier add_note.
C3_IdsIncrease ==
    \A i \in 1..Len(nhist) : \A j \in 1..Len(nhist) :
       (i < j /\ nhist[i].op = "add" /\ nhist[j].op = "add")
          => nhist[i].id < nhist[j].id

\* the last step ran change with three words on an existing contact
ChangeRan ==
    /\ last'.cmd = "change"
    /\ Len(last'.args) = 3
    /\ find(book, last'.args[1]) # 0

\* C4: edit_phone(old, new) on a Record that holds no phone equal to old
\* fails with the phone-not-found error and leaves the phone list exactly
\* as it was, for every new value, valid or invalid.
C4_EditAbsentPhone ==
    [][(/\ ChangeRan
        /\ \A k \in 1..Len(book[find(book, last'.args[1])].phones) :
              book[find(book, last'.args[1])].phones[k] # last'.args[2])
       => (/\ last'.ret = Str("Phone {} not found.", <<last'.args[2]>>)
           /\ book' = book)]_vars

C4_Witness ==
    /\ last.cmd = "change"
    /\ Len(last.args) = 3
    /\ find(book, last.args[1]) # 0
    /\ book[find(book, last.args[1])].phones = <<P1, P2>>
    /\ last.args[2] = BadA
    /\ ~TenDigits(last.args[3])
    /\ last.ret.text = "Phone {} not found."

\* C5: get_upcoming_birthdays(window_days) contains a record exactly when
\* it has a birthday whose next occurrence (this year's date if today or
\* later, otherwise next year's) is at least 0 and less than window_days
\* days from today, in the order of the book, and reports that date.
NextOccurrence(birthday, now) ==
    IF DateLess(<<now[1], birthday[2], birthday[3]>>, now)
    THEN <<now[1] + 1, birthday[2], birthday[3]>>
    ELSE <<now[1], birthday[2], birthday[3]>>

DaysUntil(birthday, now) ==
    ToOrdinal(NextOccurrence(birthday, now)) - ToOrdinal(now)

RECURSIVE ExpectedUpcoming(_, _, _)
ExpectedUpcoming(bk, now, days) ==
    IF bk = <<>> THEN <<>>
    ELSE (IF /\ bk[1].birthday # None
             /\ DaysUntil(bk[1].birthday, now) >= 0
             /\ DaysUntil(bk[1].birthday, now) < days
          THEN <<<<bk[1].name,
                   FormatDate(NextOccurrence(bk[1].birthday, now))>>>>
          ELSE <<>>)
         \o ExpectedUpcoming(Tail(bk), now, days)

\* the window the last birthdays command asked for
LastWindow == IF last.args = <<>> THEN 7 ELSE NumVal(last.args[1])

BirthdaysRan ==
    /\ last.cmd = "birthdays"
    /\ last.args = <<>> \/ AllDigits(last.args[1])

C5_UpcomingExact ==
    BirthdaysRan =>
       /\ last.exc = NoExc
       /\ last.ret.text \in {"Upcoming birthdays in the next {} days:",
                             "No upcoming birthdays in the next {} days."}
       /\ last.ret.arg = <<LastWindow,
                           ExpectedUpcoming(book, last.now, LastWindow)>>

\* C6: every failure of a recognized command is converted to a message
\* and the session continues to the next prompt; no failure leaves the
\* command loop and the process ends only on exit or close.
C6_NoFailureLeavesLoop ==
    /\ pc \in {"prompt", "done"}
    /\ pc = "done" => last.cmd = "exit"

\* the notes of a NoteBook that hold a tag equal to tag, each once, in the
\* order of the collection
NotesWithTag(nb, tag) ==
    LET Holds(e) == \E k \in 1..Len(e.note.tags) : e.note.tags[k] = tag
        sel == SelectSeq(nb, Holds)
    IN [i \in 1..Len(sel) |-> sel[i].note]

\* C7: find_by_tag(tag) returns exactly the notes that hold at least one
\* tag equal to tag by exact, case-sensitive equality, each once, in the
\* order the notes appear in the collection.
C7_FindByTagExact ==
    /\ \A tag \in TagInputs :
          NoteBook_find_by_tag(notebook, tag) = NotesWithTag(notebook, tag)
    /\ (last.cmd = "find-tag" /\ last.args # <<>>) =>
          LET want == NotesWithTag(notebook, last.args[1]) IN
          IF want = <<>>
          THEN last.ret = Str("No notes found with tag {}.", <<last.args[1]>>)
          ELSE last.ret =
                  Table([i \in 1..Len(want) |->
                            <<want[i].text, JoinTags(want[i].tags)>>])

C7_Witness ==
    /\ last.cmd = "find-tag"
    /\ last.args = <<"work">>
    /\ Len(notebook) >= 2
    /\ notebook[1].note.tags = <<"Work">>
    /\ notebook[2].note.tags = <<"work", "work">>
    /\ last.ret.kind = "table"
    /\ Len(last.ret.arg) = 1

\* C8: edit_phone(old, new) on a Record that holds a phone equal to old,
\* with new not a 10-digit string, fails with the invalid-phone-format
\* error, and afterwards the first phone that was equal to old holds new
\* while everything else is unchanged.
C8_InvalidEditStaysInPlace ==
    [][(/\ ChangeRan
        /\ \E k \in 1..Len(book[find(book, last'.args[1])].phones) :
              book[find(book, last'.args[1])].phones[k] = last'.args[2]
        /\ ~TenDigits(last'.args[3]))
       => LET i == find(book, last'.args[1])
              old == last'.args[2]
              k == CHOOSE k \in 1..Len(book[i].phones) :
                      /\ book[i].phones[k] = old
                      /\ \A m \in 1..(k - 1) : book[i].phones[m] # old
          IN /\ last'.ret =
                   Str("Invalid phone number format. It should be 10 digits.",
                       <<>>)
             /\ Len(book') = Len(book)
             /\ \A j \in 1..Len(book) : j # i => book'[j] = book[j]
             /\ book'[i].name = book[i].name
             /\ book'[i].birthday = book[i].birthday
             /\ Len(book'[i].phones) = Len(book[i].phones)
             /\ book'[i].phones[k] = last'.args[3]
             /\ \A m \in 1..Len(book[i].phones) :
                   m # k => book'[i].phones[m] = book[i].phones[m]]_vars

C8_Witness ==
    /\ last.cmd = "change"
    /\ last.args = <<"Ann", P1, BadA>>
    /\ find(book, "Ann") # 0
    /\ book[find(book, "Ann")].phones = <<BadA, P1>>
    /\ last.ret.text = "Invalid phone number format. It should be 10 digits."

\* C9: add_note increases the number of notes by exactly one and leaves
\* every note that was present before the call present under the same
\* identifier and unchanged; a note leaves the NoteBook only through
\* delete_note on its identifier.
C9_AddNoteKeepsNotes ==
    [][/\ (last'.cmd = "add-note" /\ last'.args # <<>>) =>
             /\ Len(notebook') = Len(notebook) + 1
             /\ \A id \in Ids(notebook) :
                   /\ id \in Ids(notebook')
                   /\ NoteAt(notebook', id) = NoteAt(notebook, id)
       /\ \A id \in Ids(notebook) :
             (id \notin Ids(notebook') \/ NoteAt(notebook', id).creation_date
                                             # NoteAt(notebook, id).creation_date)
                => (last'.cmd = "delete-note" /\ last'.ret.arg = <<id>>)]_vars

\* C10: get_upcoming_birthdays returns a list without raising for every
\* book of parsed birthdays and every current date, 29 February included;
\* the birthdays command, with or without a day count, prints its result
\* and returns to the prompt.
C10_BirthdaysNeverRaises ==
    last.cmd = "birthdays" =>
       /\ pc = "prompt"
       /\ last.exc = NoExc
       /\ BirthdaysRan =>
             last.ret.text \in {"Upcoming birthdays in the next {} days:",
                               "No upcoming birthdays in the next {} days."}

====
